---- MODULE Spec2Model ----
(***************************************************************************)
(* DEX aggregator router: QuoteFetcher (quote_fetcher.py), the CLI main    *)
(* (dex_router.py) and RouteOptimizer (route_optimizer.py).                *)
(*                                                                         *)
(* Time is counted in ticks; one second is TicksPerSecond ticks, chosen so *)
(* that every source's minimum interval 1/rate_limit is a whole number of  *)
(* ticks.  The asyncio event loop is modelled by its atomic steps: a task  *)
(* runs without interruption from one suspending await to the next.        *)
(***************************************************************************)
EXTENDS Integers, Sequences, FiniteSets, TLC

\* ------------------------------------------------------------------------
\* Bounds of the model
\* ------------------------------------------------------------------------
\* number of fetch_all_quotes calls that may run at once on one QuoteFetcher
MaxCalls == 2
\* number of fetch_all_quotes calls made on one QuoteFetcher
MaxStarts == 3
\* time.time() when the program starts, in ticks (later than every interval)
StartClock == 1000
\* latency, in ticks, of a source that answers neither at once nor too late
ResponseDelay == 10
\* raw output amount and gas estimate carried by a complete response
RespOut == 2500
RespGas == 180000

\* ------------------------------------------------------------------------
\* Static tables of quote_fetcher.py
\* ------------------------------------------------------------------------
AggOrder == <<"1inch", "paraswap", "0x">>

Sources == {AggOrder[i] : i \in 1..Len(AggOrder)}

RateLimit(s) == CASE s = "1inch" -> 1 [] s = "paraswap" -> 10 [] s = "0x" -> 3

AggChains(s) == IF s = "0x" THEN {1, 137, 42161} ELSE {1, 137, 42161, 10}

ChainId(chain) ==
    CASE chain = "ethereum" -> 1
      [] chain = "arbitrum" -> 42161
      [] chain = "polygon" -> 137
      [] chain = "optimism" -> 10
      [] OTHER -> 1

TokenAddresses(chain) ==
    CASE chain = "ethereum" -> {"ETH", "WETH", "USDC", "USDT", "DAI", "WBTC"}
      [] chain = "arbitrum" -> {"ETH", "WETH", "USDC", "USDT"}
      [] chain = "polygon" -> {"MATIC", "WMATIC", "USDC", "USDT"}
      [] OTHER -> {}

\* the source name a normalized quote carries
QuoteSource(s) == IF s = "paraswap" THEN "Paraswap" ELSE s

TimeoutSeconds == 10

DefaultGasEstimate == 150000

TicksPerSecond == RateLimit("1inch") * RateLimit("paraswap") * RateLimit("0x")

Timeout == TimeoutSeconds * TicksPerSecond

\* min_interval = 1.0 / rate_limit
MinInterval(s) == TicksPerSecond \div RateLimit(s)

\* ------------------------------------------------------------------------
\* Inputs
\* ------------------------------------------------------------------------
AddressToken == "0xA0b86991c6218b36c1d19D4a2e9Eb0cE3606eB48"

FromTokens == {"ETH", "XYZ", AddressToken}

ToTokens == {"usdc", "XYZ", AddressToken}

\* values of --chain that differ in sources or known tokens
Chains == {"ethereum", "polygon", "optimism"}

AmountStrings == {"abc", "NaN", "0", "-1", "2"}

Modes == {"quick", "compare", "routes", "split", "mev", "full"}

\* str.upper() on the token symbols of the model
Upper(sym) == CASE sym = "usdc" -> "USDC" [] sym = "eth" -> "ETH" [] OTHER -> sym

\* symbol.startswith("0x") and len(symbol) == 42
IsAddress(sym) == sym = AddressToken

\* "USD" in to_token.upper()
HasUSD(sym) == Upper(sym) \in {"USDC", "USDT"}

\* Decimal(str): kind "invalid" is InvalidOperation, "nan" a NaN Decimal
ParseDecimal(str) ==
    CASE str = "NaN" -> [kind |-> "nan", val |-> 0]
      [] str = "0" -> [kind |-> "num", val |-> 0]
      [] str = "-1" -> [kind |-> "num", val |-> -1]
      [] str = "2" -> [kind |-> "num", val |-> 2]
      [] OTHER -> [kind |-> "invalid", val |-> 0]

\* ------------------------------------------------------------------------
\* What a source may answer to one HTTP request
\* ------------------------------------------------------------------------
\* exc: client.get raised; timedOut: the exception is the client's timeout;
\* json "invalid": response.json() raises; hasOut/hasGas: the output amount
\* (dstAmount, priceRoute.destAmount, buyAmount) and the gas estimate
\* (estimatedGas, priceRoute.gasCost) are present; outNumeric: Decimal()
\* accepts the output amount.
MkResp(exc, timedOut, status, json, hasOut, outNumeric, hasGas) ==
    [exc |-> exc, timedOut |-> timedOut, status |-> status, json |-> json,
     hasOut |-> hasOut, outNumeric |-> outNumeric, out |-> RespOut,
     hasGas |-> hasGas, gas |-> RespGas]

NoResp == MkResp(FALSE, FALSE, 0, "none", FALSE, FALSE, FALSE)

RespTimeout == MkResp(TRUE, TRUE, 0, "none", FALSE, FALSE, FALSE)

RespNetError == MkResp(TRUE, FALSE, 0, "none", FALSE, FALSE, FALSE)

RespHttp500 == MkResp(FALSE, FALSE, 500, "dict", TRUE, TRUE, TRUE)

RespBadJson == MkResp(FALSE, FALSE, 200, "invalid", FALSE, FALSE, FALSE)

RespFull == MkResp(FALSE, FALSE, 200, "dict", TRUE, TRUE, TRUE)

RespNoOut == MkResp(FALSE, FALSE, 200, "dict", FALSE, FALSE, TRUE)

RespNoGas == MkResp(FALSE, FALSE, 200, "dict", TRUE, TRUE, FALSE)

RespBadOut == MkResp(FALSE, FALSE, 200, "dict", TRUE, FALSE, TRUE)

\* every answer that arrives before the client's timeout
PromptResponses ==
    {RespNetError, RespHttp500, RespBadJson, RespFull, RespNoOut, RespNoGas,
     RespBadOut}

\* the answers of the library-level specification
LibResponses == {RespFull}

Durations == {0, ResponseDelay, Timeout}

\* the latencies of the library-level specification
LibDurations == {0, ResponseDelay}

\* a 200 response whose JSON is an object lacking a required field
MissingFields(resp) ==
    /\ ~resp.exc /\ resp.status = 200 /\ resp.json = "dict"
    /\ (~resp.hasOut \/ ~resp.hasGas)

\* ------------------------------------------------------------------------
\* QuoteFetcher: pure parts
\* ------------------------------------------------------------------------
NoQuote ==
    [source |-> "", output_raw |-> 0, out_decimals |-> 0, gas_estimate |-> 0,
     input_amount |-> 0]

ResNone == [kind |-> "None", q |-> NoQuote]

ResRaise == [kind |-> "raise", q |-> NoQuote]

ResQuote(q) == [kind |-> "quote", q |-> q]

\* resolve_token_address: TRUE when it returns an address, FALSE when it
\* raises ValueError
ResolveOk(symbol, chain) ==
    \/ Upper(symbol) \in TokenAddresses(chain)
    \/ IsAddress(symbol)

\* int(params.amount * Decimal(10**18)) raises on a NaN amount
AmountWeiOk(amount) == amount.kind = "num"

\* a _fetch_* function that sends the symbols unresolved
FetchPrepareUnresolved(s, p) == IF AmountWeiOk(p.amount) THEN "send" ELSE "raise"

\* _fetch_1inch/_fetch_paraswap/_fetch_0x up to the HTTP call: "send" when
\* client.get is reached, "raise" when an exception leaves the function
FetchPrepare(s, p) ==
    IF /\ ResolveOk(p.from_token, p.chain)
       /\ ResolveOk(p.to_token, p.chain)
       /\ AmountWeiOk(p.amount)
    THEN "send"
    ELSE "raise"

\* data.get(<output amount>, 0)
OutputRaw(data) == IF data.hasOut THEN data.out ELSE 0

\* a gas estimate that defaults to 0
GasEstimateNoDefault(data) == IF data.hasGas THEN data.gas ELSE 0

\* int(data.get(<gas estimate>, 150000))
GasEstimate(data) == IF data.hasGas THEN data.gas ELSE DefaultGasEstimate

\* _normalize_*_quote: the quote, or "raise" when Decimal() rejects the
\* output amount
Normalize(s, data, p) ==
    IF data.hasOut /\ ~data.outNumeric
    THEN ResRaise
    ELSE ResQuote([source |-> QuoteSource(s),
                   output_raw |-> OutputRaw(data),
                   out_decimals |-> IF HasUSD(p.to_token) THEN 6 ELSE 18,
                   gas_estimate |-> GasEstimate(data),
                   input_amount |-> p.amount.val])

\* try: client.get ... except Exception: return None (the inner try of each
\* _fetch_* function)
FetchFinish(s, p, resp) ==
    IF resp.exc THEN ResNone
    ELSE IF resp.status # 200 THEN ResNone
    ELSE IF resp.json # "dict" THEN ResNone
    ELSE IF Normalize(s, resp, p).kind = "raise" THEN ResNone
    ELSE Normalize(s, resp, p)

\* _fetch_with_timeout: try ... except Exception: return None
CatchAll(res) == IF res.kind = "raise" THEN ResNone ELSE res

\* the sources fetch_all_quotes launches, in the order of AGGREGATORS
Launched(chain) ==
    SelectSeq(AggOrder, LAMBDA s : ChainId(chain) \in AggChains(s))

IsQuote(res) == res.kind = "quote"

\* a loop over results that stops at the first result that is no quote
CollectUntilFailure(results) ==
    LET n == Cardinality({i \in 1..Len(results) :
                            \A j \in 1..i : IsQuote(results[j])})
    IN  [i \in 1..n |-> results[i].q]

\* the loop over results: keeps the NormalizedQuote instances
CollectQuotes(results) ==
    LET kept == SelectSeq(results, IsQuote)
    IN  [i \in 1..Len(kept) |-> kept[i].q]

\* _wait_for_rate_limit: how long the task sleeps, given the last request
\* time read (0 when the source has none) and the current time
SleepFor(s, last, t) ==
    IF t - last < MinInterval(s) THEN MinInterval(s) - (t - last) ELSE 0

\* self._last_request_time.get(aggregator, 0)
GetLast(d, s) == IF s \in DOMAIN d THEN d[s] ELSE 0

\* ------------------------------------------------------------------------
\* State
\* ------------------------------------------------------------------------
VARIABLES
    now,        \* time.time(), in ticks
    lastReq,    \* QuoteFetcher._last_request_time (a dict: partial function)
    call,       \* the fetch_all_quotes calls on the fetcher
    task,       \* the per-source task of each call
    passGap,    \* history: per source, the time between the last two tasks
                \* that left the rate limiter (NoGap before the second)
    httpCount,  \* history: per call and source, the HTTP requests issued
    started,    \* history: the number of calls made on the fetcher
    mainpc,     \* position of the CLI main
    args,       \* the parsed command line
    exitCode,   \* -1 while running, else the process exit status
    printed,    \* the messages the CLI printed
    analyses,   \* the analyses the CLI ran
    rankIn,     \* the quote list handed to rank_quotes
    rankOut,    \* what rank_quotes or compare_routes returned
    rankpc,     \* "input" before the call of rank_quotes, "ranked" after it
    rankAt,     \* history: the clock at the last call of rank_quotes or
                \* compare_routes
    splitIn,    \* the calculator and the arguments of calculate_split
    splitOut,   \* what calculate_split returned
    splitpc,    \* "input" before the call of calculate_split, "done" after
    mevIn,      \* the assessor and the arguments of assess_risk
    mevOut,     \* the assessment assess_risk returned
    mevpc       \* "input" before the call of assess_risk, "done" after it

vars ==
    <<now, lastReq, call, task, passGap, httpCount, started, mainpc, args,
      exitCode, printed, analyses, rankIn, rankOut, rankpc, rankAt,
      splitIn, splitOut, splitpc, mevIn, mevOut, mevpc>>

\* the state of the fetcher and of the CLI
fetchVars ==
    <<now, lastReq, call, task, passGap, httpCount, started, mainpc, args,
      exitCode, printed, analyses>>

\* the state of the downstream components
rankVars == <<rankIn, rankOut, rankpc, rankAt>>

splitVars == <<splitIn, splitOut, splitpc>>

mevVars == <<mevIn, mevOut, mevpc>>

\* the state of the callers of the pure components
pureVars == <<rankVars, splitVars, mevVars>>

\* a component that is not called
RankIdle ==
    rankIn = <<>> /\ rankOut = <<>> /\ rankpc = "idle" /\ rankAt = 0

SplitIdle == splitIn = "none" /\ splitOut = "none" /\ splitpc = "idle"

MevIdle == mevIn = "none" /\ mevOut = "none" /\ mevpc = "idle"

Calls == 1..MaxCalls

NoParams ==
    [from_token |-> "", to_token |-> "", amount |-> ParseDecimal("0"),
     chain |-> ""]

IdleCall ==
    [phase |-> "idle", params |-> NoParams, start |-> 0, finish |-> 0,
     quotes |-> <<>>]

IdleTask ==
    [pc |-> "unlaunched", wake |-> 0, dur |-> 0, resp |-> NoResp,
     result |-> ResNone]

NoGap == 0 - 1

NoArgs == [from_token |-> "", to_token |-> "", amount |-> "", chain |-> ""]

\* QuoteFetcher.__init__ and the state shared by every specification
InitFetcher ==
    /\ now = StartClock
    /\ lastReq = <<>>
    /\ call = [c \in Calls |-> IdleCall]
    /\ task = [c \in Calls |-> [s \in Sources |-> IdleTask]]
    /\ passGap = [s \in Sources |-> NoGap]
    /\ httpCount = [c \in Calls |-> [s \in Sources |-> 0]]
    /\ started = 0

\* ------------------------------------------------------------------------
\* fetch_all_quotes
\* ------------------------------------------------------------------------
InSeq(x, seq) == \E i \in 1..Len(seq) : seq[i] = x

\* fetch_all_quotes up to the await of gather: one task per source whose
\* chain table has the chain id
FetchAllStart(c, p) ==
    /\ call[c].phase = "idle"
    /\ call' = [call EXCEPT ![c] =
                  [phase |-> "gathering", params |-> p, start |-> now,
                   finish |-> now, quotes |-> <<>>]]
    /\ task' = [task EXCEPT ![c] =
                  [s \in Sources |->
                     IF InSeq(s, Launched(p.chain))
                     THEN [IdleTask EXCEPT !.pc = "scheduled"]
                     ELSE IdleTask]]
    /\ started' = started + 1

\* the sources before s in the order of AGGREGATORS
Before(s) ==
    {AggOrder[i] : i \in {j \in 1..Len(AggOrder) :
                             \E k \in (j + 1)..Len(AggOrder) : AggOrder[k] = s}}

\* the tasks awaited one after the other instead of gathered
RunnableInTurn(c, s) ==
    /\ task[c][s].pc = "scheduled"
    /\ \A b \in Before(s) : task[c][b].pc \in {"unlaunched", "done"}

\* asyncio.gather starts every task it was given
Runnable(c, s) == task[c][s].pc = "scheduled"

\* the task leaves the rate limiter (line 215) and runs on, through the
\* _fetch_* function, to the HTTP call or to the exception that ends it
PassAndSend(c, s, Durs) ==
    /\ lastReq' = [x \in DOMAIN lastReq \cup {s} |->
                     IF x = s THEN now ELSE lastReq[x]]
    /\ passGap' = [passGap EXCEPT ![s] =
                     IF s \in DOMAIN lastReq THEN now - lastReq[s] ELSE NoGap]
    /\ IF FetchPrepare(s, call[c].params) = "send"
       THEN /\ \E d \in Durs :
                 task' = [task EXCEPT ![c][s] =
                            [@ EXCEPT !.pc = "http", !.wake = now + d,
                                      !.dur = d]]
            /\ httpCount' = [httpCount EXCEPT ![c][s] = @ + 1]
       ELSE /\ task' = [task EXCEPT ![c][s] =
                          [@ EXCEPT !.pc = "done",
                                    !.result = CatchAll(ResRaise)]]
            /\ UNCHANGED httpCount

\* _fetch_with_timeout from its start: _wait_for_rate_limit reads the last
\* request time and either sleeps or goes on at once
TaskStart(c, s, Durs) ==
    /\ call[c].phase = "gathering"
    /\ Runnable(c, s)
    /\ LET sl == SleepFor(s, GetLast(lastReq, s), now)
       IN  IF sl > 0
           THEN /\ task' = [task EXCEPT ![c][s] =
                              [@ EXCEPT !.pc = "sleeping", !.wake = now + sl]]
                /\ UNCHANGED <<lastReq, passGap, httpCount>>
           ELSE PassAndSend(c, s, Durs)
    /\ UNCHANGED <<now, call, started, mainpc, args, exitCode, printed, analyses>>
    /\ UNCHANGED pureVars

\* asyncio.sleep(min_interval - elapsed) returns
TaskWake(c, s, Durs) ==
    /\ task[c][s].pc = "sleeping"
    /\ task[c][s].wake = now
    /\ PassAndSend(c, s, Durs)
    /\ UNCHANGED <<now, call, started, mainpc, args, exitCode, printed, analyses>>
    /\ UNCHANGED pureVars

\* a task that asks its source again when it got no quote
PcRetry(res) == IF res.kind = "quote" THEN "done" ELSE "scheduled"

\* _fetch_with_timeout returns what the _fetch_* function returned: the
\* task is over whatever the result
PcAfter(res) == "done"

\* the answers a request that took d ticks may get
AnswersAfter(d, Resps) == IF d >= Timeout THEN {RespTimeout} ELSE Resps

\* client.get returns or raises; the _fetch_* function and
\* _fetch_with_timeout finish
HttpComplete(c, s, Resps) ==
    /\ task[c][s].pc = "http"
    /\ task[c][s].wake = now
    /\ \E resp \in AnswersAfter(task[c][s].dur, Resps) :
         task' = [task EXCEPT ![c][s] =
                    [@ EXCEPT
                       !.pc = PcAfter(CatchAll(FetchFinish(s, call[c].params, resp))),
                       !.resp = resp,
                       !.result = CatchAll(FetchFinish(s, call[c].params, resp))]]
    /\ UNCHANGED <<now, lastReq, call, passGap, httpCount, started, mainpc,
                   args, exitCode, printed, analyses>>
    /\ UNCHANGED pureVars

\* a wait that ends with the first task that finishes
GatherFirstDone(c) ==
    \/ \A s \in Sources : task[c][s].pc = "unlaunched"
    \/ \E s \in Sources : task[c][s].pc = "done"

\* await asyncio.gather(*tasks, return_exceptions=True) resumes
GatherDone(c) ==
    \A s \in Sources : task[c][s].pc \in {"unlaunched", "done"}

\* the results in the order the tasks completed: the earliest first
GatherAsCompleted(c) ==
    LET l == Launched(call[c].params.chain)
        Early(s) == \A i \in 1..Len(l) : task[c][s].wake <= task[c][l[i]].wake
        Late(s) == ~Early(s)
        o == SelectSeq(l, Early) \o SelectSeq(l, Late)
    IN  [i \in 1..Len(l) |-> task[c][o[i]].result]

\* the results of gather, in the order the tasks were given
GatherResults(c) ==
    LET l == Launched(call[c].params.chain)
    IN  [i \in 1..Len(l) |-> task[c][l[i]].result]

\* with return_exceptions=True an exception is a result, never raised
GatherRaises(results) == FALSE

GatherReturn(c) ==
    /\ call[c].phase = "gathering"
    /\ GatherDone(c)
    /\ call' = [call EXCEPT ![c] =
                  [@ EXCEPT !.phase = IF GatherRaises(GatherResults(c))
                                      THEN "raised" ELSE "returned",
                            !.finish = now,
                            !.quotes = IF GatherRaises(GatherResults(c))
                                       THEN <<>>
                                       ELSE CollectQuotes(GatherResults(c))]]
    /\ UNCHANGED <<now, lastReq, task, passGap, httpCount, started, mainpc,
                   args, exitCode, printed, analyses>>
    /\ UNCHANGED pureVars

\* ------------------------------------------------------------------------
\* Time
\* ------------------------------------------------------------------------
Waiting == {x \in Calls \X Sources : task[x[1]][x[2]].pc \in {"sleeping", "http"}}

WakeOf(x) == task[x[1]][x[2]].wake

\* the event loop has nothing to run: time passes to the next wake-up
Advance ==
    /\ Waiting # {}
    /\ \A x \in Waiting : WakeOf(x) > now
    /\ \A c \in Calls : \A s \in Sources : ~Runnable(c, s)
    /\ \A c \in Calls : ~(call[c].phase = "gathering" /\ GatherDone(c))
    /\ \E x \in Waiting :
         /\ \A y \in Waiting : WakeOf(x) <= WakeOf(y)
         /\ now' = WakeOf(x)
    /\ UNCHANGED <<lastReq, call, task, passGap, httpCount, started, mainpc,
                   args, exitCode, printed, analyses>>
    /\ UNCHANGED pureVars

\* ------------------------------------------------------------------------
\* dex_router.py: main and fetch_quotes
\* ------------------------------------------------------------------------
\* a main that does not catch InvalidOperation and treats the amount as 0
AmountAcceptedAlways(str) == TRUE

\* amount = Decimal(args.amount), except InvalidOperation
AmountAccepted(str) == ParseDecimal(str).kind # "invalid"

\* main, lines 256-261: parse the amount or print the error and exit 1
MainParse ==
    /\ mainpc = "start"
    /\ IF AmountAccepted(args.amount)
       THEN /\ mainpc' = "fetch_quotes"
            /\ UNCHANGED <<exitCode, printed>>
       ELSE /\ mainpc' = "exited"
            /\ exitCode' = 1
            /\ printed' = printed \cup {"invalid_amount"}
    /\ UNCHANGED <<now, lastReq, call, task, passGap, httpCount, started, args,
                   analyses>>
    /\ UNCHANGED pureVars

\* SwapParams(...) as fetch_quotes builds it
ParamsOf(a) ==
    [from_token |-> a.from_token, to_token |-> a.to_token,
     amount |-> ParseDecimal(a.amount), chain |-> a.chain]

\* fetch_quotes, lines 138-166: a new fetcher, the parameters, the call
MainFetchQuotes ==
    /\ mainpc = "fetch_quotes"
    /\ FetchAllStart(1, ParamsOf(args))
    /\ mainpc' = "awaiting"
    /\ printed' = printed \cup {"fetching"}
    /\ UNCHANGED <<now, lastReq, passGap, httpCount, args, exitCode, analyses>>
    /\ UNCHANGED pureVars

\* a main that goes on without quotes
MainNeverExits(quotes) == FALSE

\* main, lines 269-270: if not quotes: sys.exit(1)
MainExitsOn(quotes) == quotes = <<>>

\* main, lines 276-289, with the guard "if not quotes: return" of each run_*
RunAnalyses(mode, quotes) ==
    IF quotes = <<>> THEN {}
    ELSE CASE mode = "full" -> {"compare", "split", "mev"}
           [] mode = "compare" -> {"compare"}
           [] mode = "split" -> {"split"}
           [] mode = "mev" -> {"mev"}
           [] mode = "routes" -> {"compare"}
           [] OTHER -> {"quick"}

\* fetch_quotes, lines 168-175, and main, lines 269-289
MainResume ==
    /\ mainpc = "awaiting"
    /\ call[1].phase = "returned"
    /\ mainpc' = "exited"
    /\ printed' = IF call[1].quotes = <<>>
                  THEN printed \cup {"no_quotes_guidance"}
                  ELSE printed
    /\ IF MainExitsOn(call[1].quotes)
       THEN /\ exitCode' = 1
            /\ UNCHANGED analyses
       ELSE /\ exitCode' = 0
            /\ \E mode \in Modes : analyses' = RunAnalyses(mode, call[1].quotes)
    /\ UNCHANGED <<now, lastReq, call, task, passGap, httpCount, started, args>>
    /\ UNCHANGED pureVars

\* ------------------------------------------------------------------------
\* Specification of the command-line program: one main, one fetcher
\* ------------------------------------------------------------------------
ArgsSet ==
    [from_token : FromTokens, to_token : ToTokens, amount : AmountStrings,
     chain : Chains]

Init ==
    /\ InitFetcher
    /\ mainpc = "start"
    /\ args \in ArgsSet
    /\ exitCode = -1
    /\ printed = {}
    /\ analyses = {}
    /\ RankIdle
    /\ SplitIdle
    /\ MevIdle

Next ==
    \/ MainParse
    \/ MainFetchQuotes
    \/ MainResume
    \/ \E c \in Calls, s \in Sources : TaskStart(c, s, Durations)
    \* no TaskWake: fetch_quotes builds a fresh QuoteFetcher for its one
    \* call, so _last_request_time is empty, elapsed is the whole clock
    \* reading and no task of main sleeps in _wait_for_rate_limit
    \/ \E c \in Calls, s \in Sources : HttpComplete(c, s, PromptResponses)
    \/ \E c \in Calls : GatherReturn(c)
    \/ Advance

Spec == Init /\ [][Next]_vars

\* ------------------------------------------------------------------------
\* Specification of the library: calls of fetch_all_quotes that share one
\* QuoteFetcher and may overlap
\* ------------------------------------------------------------------------
LibParams ==
    {[from_token |-> "ETH", to_token |-> "usdc", amount |-> ParseDecimal("2"),
      chain |-> "ethereum"],
     [from_token |-> AddressToken, to_token |-> AddressToken,
      amount |-> ParseDecimal("2"), chain |-> "optimism"]}

StartCall(c, p) ==
    /\ started < MaxStarts
    /\ FetchAllStart(c, p)
    /\ UNCHANGED <<now, lastReq, passGap, httpCount, mainpc, args, exitCode,
                   printed, analyses>>
    /\ UNCHANGED pureVars

\* the caller is done with the list a call returned
DropCall(c) ==
    /\ call[c].phase = "returned"
    /\ call' = [call EXCEPT ![c] = IdleCall]
    /\ task' = [task EXCEPT ![c] = [s \in Sources |-> IdleTask]]
    /\ httpCount' = [httpCount EXCEPT ![c] = [s \in Sources |-> 0]]
    /\ UNCHANGED <<now, lastReq, passGap, started, mainpc, args, exitCode,
                   printed, analyses>>
    /\ UNCHANGED pureVars

InitLib ==
    /\ InitFetcher
    /\ mainpc = "library"
    /\ args = NoArgs
    /\ exitCode = -1
    /\ printed = {}
    /\ analyses = {}
    /\ RankIdle
    /\ SplitIdle
    /\ MevIdle

NextLib ==
    \/ \E c \in Calls, p \in LibParams : StartCall(c, p)
    \/ \E c \in Calls, s \in Sources : TaskStart(c, s, LibDurations)
    \/ \E c \in Calls, s \in Sources : TaskWake(c, s, LibDurations)
    \/ \E c \in Calls, s \in Sources : HttpComplete(c, s, LibResponses)
    \/ \E c \in Calls : GatherReturn(c)
    \/ \E c \in Calls : DropCall(c)
    \/ Advance

SpecLib == InitLib /\ [][NextLib]_vars

\* ------------------------------------------------------------------------
\* route_optimizer.py: RouteOptimizer
\*
\* Amounts are integers (hundredths).  A score is kept exactly, as the
\* numerator over the denominator ScoreDen of its candidate set, so scores
\* of one set compare as their numerators do.
\* ------------------------------------------------------------------------
\* the longest quote list handed to rank_quotes
MaxQuotes == 3

RankSources == {"1inch", "Other"}

\* effective rates: 251 lies a third of the way from 250 to 253, so that a
\* lower rate with the lowest gas cost can tie a higher rate with the highest
RateValues == {250, 251, 253}

GasValues == {11, 13}

\* a quote as RouteOptimizer reads it; expired is is_expired at the call
RankQuotes ==
    {[source |-> src, effective_rate |-> er, gas_cost_usd |-> g,
      output_amount |-> er + g, expired |-> x] :
        src \in RankSources, er \in RateValues, g \in GasValues,
        x \in BOOLEAN}

\* the three mock quotes of demo(), rates and gas costs in hundredths
DemoQuotes ==
    <<[source |-> "1inch", effective_rate |-> 254209, gas_cost_usd |-> 1125,
       output_amount |-> 2543218, expired |-> FALSE],
      [source |-> "Paraswap", effective_rate |-> 253850, gas_cost_usd |-> 1350,
       output_amount |-> 2539845, expired |-> FALSE],
      [source |-> "0x", effective_rate |-> 253980, gas_cost_usd |-> 1200,
       output_amount |-> 2541000, expired |-> FALSE]>>

\* a fresh quote
FreshQuote(src, er, g, out) ==
    [source |-> src, effective_rate |-> er, gas_cost_usd |-> g,
     output_amount |-> out, expired |-> FALSE]

\* quote lists outside the grid: a source that answered without an output
\* amount (output_amount 0, a negative effective rate); output amounts a
\* tenth of a percent and one percent apart; a best rate that costs the most
\* gas, close to the second best
OtherQuoteLists ==
    {<<FreshQuote("1inch", 0 - 11, 11, 0), FreshQuote("0x", 250, 13, 2513)>>,
     <<FreshQuote("1inch", 0 - 11, 11, 0)>>,
     <<FreshQuote("1inch", 990, 11, 1001), FreshQuote("0x", 987, 13, 1000)>>,
     <<FreshQuote("1inch", 999, 11, 1010), FreshQuote("0x", 987, 13, 1000)>>,
     <<FreshQuote("1inch", 254209, 1350, 2543218),
       FreshQuote("Paraswap", 253850, 1200, 2539845),
       FreshQuote("0x", 254190, 1125, 2541000)>>}

RankInputs ==
    UNION {[1..n -> RankQuotes] : n \in 0..MaxQuotes}
      \cup {DemoQuotes} \cup OtherQuoteLists

\* SOURCE_RELIABILITY.get(quote.source, 0.85), in hundredths
Reliability(source) ==
    CASE source = "1inch" -> 95
      [] source = "Paraswap" -> 92
      [] source = "0x" -> 90
      [] source = "Uniswap" -> 98
      [] source = "Curve" -> 97
      [] source = "Balancer" -> 93
      [] OTHER -> 85

MaxOf(S) == CHOOSE x \in S : \A y \in S : y <= x

MinOf(S) == CHOOSE x \in S : \A y \in S : x <= y

RatesOf(qs) == {qs[i].effective_rate : i \in 1..Len(qs)}

GasOf(qs) == {qs[i].gas_cost_usd : i \in 1..Len(qs)}

OutputsOf(as) == {as[i].quote.output_amount : i \in 1..Len(as)}

\* output_range and gas_range of _calculate_score
OutputRange(qs) == MaxOf(RatesOf(qs)) - MinOf(RatesOf(qs))

GasRange(qs) == MaxOf(GasOf(qs)) - MinOf(GasOf(qs))

OrOne(n) == IF n > 0 THEN n ELSE 1

\* the common denominator of the scores of one candidate set
ScoreDen(qs) == OrOne(OutputRange(qs)) * OrOne(GasRange(qs)) * 10

\* output_score * ScoreDen
OutputScore(q, qs) ==
    IF OutputRange(qs) > 0
    THEN (q.effective_rate - MinOf(RatesOf(qs))) * 60
           * OrOne(GasRange(qs)) * 10
    ELSE 60 * ScoreDen(qs)

\* a gas score that is not inverted: the highest gas cost scores 20
GasScoreDirect(q, qs) ==
    IF GasRange(qs) > 0
    THEN (q.gas_cost_usd - MinOf(GasOf(qs))) * 20
           * OrOne(OutputRange(qs)) * 10
    ELSE 20 * ScoreDen(qs)

\* gas_score * ScoreDen
GasScore(q, qs) ==
    IF GasRange(qs) > 0
    THEN (GasRange(qs) - (q.gas_cost_usd - MinOf(GasOf(qs)))) * 20
           * OrOne(OutputRange(qs)) * 10
    ELSE 20 * ScoreDen(qs)

\* reliability_score * ScoreDen
ReliabilityScore(q, qs) ==
    Reliability(q.source) * OrOne(OutputRange(qs)) * OrOne(GasRange(qs))

\* freshness_score * ScoreDen
FreshnessScore(q, qs) == IF q.expired THEN 0 ELSE 10 * ScoreDen(qs)

\* _calculate_score * ScoreDen
CalculateScore(q, qs) ==
    OutputScore(q, qs) + GasScore(q, qs) + ReliabilityScore(q, qs)
      + FreshnessScore(q, qs)

\* where list.sort puts an element among those already placed: behind the
\* ones whose key is at least its own
InsertAscending(sorted, a) ==
    LET n == Cardinality({i \in 1..Len(sorted) : sorted[i].score <= a.score})
    IN  SubSeq(sorted, 1, n) \o <<a>> \o SubSeq(sorted, n + 1, Len(sorted))

\* a sort that is not stable: an element goes before the placed ones with
\* its key
InsertBeforeEqual(sorted, a) ==
    LET n == Cardinality({i \in 1..Len(sorted) : sorted[i].score > a.score})
    IN  SubSeq(sorted, 1, n) \o <<a>> \o SubSeq(sorted, n + 1, Len(sorted))

\* a sort that takes the first element for the best without comparing it
InsertBehindFirst(sorted, a) ==
    LET n == IF sorted = <<>> THEN 0
             ELSE 1 + Cardinality({i \in 2..Len(sorted) :
                                      sorted[i].score >= a.score})
    IN  SubSeq(sorted, 1, n) \o <<a>> \o SubSeq(sorted, n + 1, Len(sorted))

InsertByScore(sorted, a) ==
    LET n == Cardinality({i \in 1..Len(sorted) : sorted[i].score >= a.score})
    IN  SubSeq(sorted, 1, n) \o <<a>> \o SubSeq(sorted, n + 1, Len(sorted))

\* analyses.sort(key=lambda x: x.score, reverse=True): stable, by
\* descending score
RECURSIVE SortByScore(_)
SortByScore(as) ==
    IF as = <<>> THEN <<>>
    ELSE InsertByScore(SortByScore(SubSeq(as, 1, Len(as) - 1)), as[Len(as)])

\* best_output = max(a.quote.output_amount for a in analyses)
BestOutput(as) == MaxOf(OutputsOf(as))

\* worst_output = min(a.quote.output_amount for a in analyses)
WorstOutput(as) == MinOf(OutputsOf(as))

\* rank_quotes; savings_pct is the fraction <<numerator, denominator>>
RankQuotesOf(qs) ==
    IF qs = <<>> THEN <<>>
    ELSE LET scored ==
               [i \in 1..Len(qs) |->
                  [quote |-> qs[i], rank |-> 0,
                   score |-> CalculateScore(qs[i], qs),
                   savings_vs_worst |-> 0, savings_pct |-> <<0, 1>>]]
             sorted == SortByScore(scored)
             worst_output == WorstOutput(sorted)
         IN  [i \in 1..Len(sorted) |->
                [sorted[i] EXCEPT
                   !.rank = i,
                   !.savings_vs_worst =
                      sorted[i].quote.output_amount - worst_output,
                   !.savings_pct =
                      IF worst_output > 0
                      THEN <<(sorted[i].quote.output_amount - worst_output)
                               * 100, worst_output>>
                      ELSE <<0, 1>>]]

\* a spread of exactly 0.1 counted as similar, of exactly 1.0 as minor
SpreadBucketInclusive(price_spread) ==
    IF price_spread[1] * 10 <= price_spread[2] THEN "similar"
    ELSE IF price_spread[1] <= price_spread[2] THEN "minor"
    ELSE "significant"

\* the overall recommendation of compare_routes, of a spread
\* <<numerator, denominator>>
SpreadBucket(price_spread) ==
    IF price_spread[1] * 10 < price_spread[2] THEN "similar"
    ELSE IF price_spread[1] < price_spread[2] THEN "minor"
    ELSE "significant"

\* the route with the lowest score taken for the best
LastRoute(as) == as[Len(as)]

\* best = analyses[0]
BestRoute(as) == as[1]

\* compare_routes
CompareRoutes(qs) ==
    IF qs = <<>> THEN "none"
    ELSE LET ranked == RankQuotesOf(qs)
             best == BestRoute(ranked)
             worst_output == WorstOutput(ranked)
             best_output == best.quote.output_amount
             price_spread ==
               IF worst_output > 0
               THEN <<(best_output - worst_output) * 100, worst_output>>
               ELSE <<0, 1>>
         IN  [best_route |-> best,
              all_routes |-> ranked,
              total_quotes |-> Len(qs),
              price_spread |-> price_spread,
              recommendation |-> SpreadBucket(price_spread)]

\* a caller compares the routes of its quote list
CompareCall ==
    /\ rankpc = "input"
    /\ rankOut' = CompareRoutes(rankIn)
    /\ rankpc' = "compared"
    /\ rankAt' = now
    /\ UNCHANGED <<rankIn, fetchVars, splitVars, mevVars>>

\* a caller ranks its quote list
RankCall ==
    /\ rankpc = "input"
    /\ rankOut' = RankQuotesOf(rankIn)
    /\ rankpc' = "ranked"
    /\ rankAt' = now
    /\ UNCHANGED <<rankIn, fetchVars, splitVars, mevVars>>

\* ------------------------------------------------------------------------
\* Specification of the ranking: any quote list, ranked or compared once
\* ------------------------------------------------------------------------
InitRank ==
    /\ InitFetcher
    /\ mainpc = "library"
    /\ args = NoArgs
    /\ exitCode = -1
    /\ printed = {}
    /\ analyses = {}
    /\ rankIn \in RankInputs
    /\ rankOut = <<>>
    /\ rankpc = "input"
    /\ rankAt = 0
    /\ SplitIdle
    /\ MevIdle

NextRank == RankCall \/ CompareCall

SpecRank == InitRank /\ [][NextRank]_vars

\* ------------------------------------------------------------------------
\* split_calculator.py: SplitCalculator
\*
\* Numbers.  A Python float is modelled as a binary fraction with a short
\* mantissa: a fraction below 1 (pct / 100) is a multiple of 2^-FracBits, a
\* percentage a multiple of 2^-PctBits (a percentage is about 2^7 times a
\* fraction, and has that many fewer fractional bits), rounded to nearest,
\* ties to even.  A Decimal is exact (the 28 digits of the context are not
\* reached): an input amount is an integer count of AmountUnit-ths, an
\* output amount an integer count of (input_amount * AmountUnit)-ths.
\* ------------------------------------------------------------------------
\* fractional bits of a float below 1
FracBits == 16

\* the largest total_amount
MaxAmount == 3

\* the longest quote list handed to calculate_split
MaxSplitQuotes == 3

\* defaults of SplitCalculator.__init__
DefaultMinSplitSize == 5000

DefaultMaxVenues == 4

DefaultMinAllocationPct == 10

\* default of price_usd
DefaultPriceUsd == 2500

PctBits == FracBits - 7

AmountUnit == 2 ^ FracBits

PctUnit == 2 ^ PctBits

\* min(a, b)
Smaller(a, b) == IF a < b THEN a ELSE b

\* the nearest integer to n / d, ties to even (n >= 0, d > 0)
RoundDiv(n, d) ==
    LET q == n \div d
        r == n % d
    IN  IF 2 * r < d THEN q
        ELSE IF 2 * r > d THEN q + 1
        ELSE IF q % 2 = 0 THEN q ELSE q + 1

\* price_impact of a quote, in hundredths of a percent
ImpactValues == {0, 14, 200}

\* 1 / (price_impact + 0.01) as an integer: WeightScale / (impact + 1)
WeightScale == (0 + 1) * (14 + 1) * (200 + 1)

Weight(q) == WeightScale \div (q.price_impact + 1)

SplitSources == <<"1inch", "Paraswap", "0x", "Other">>

\* how the quotes of a list relate gas cost, output amount and rate:
\* "fetched" as QuoteFetcher builds them, effective_rate = (output_amount -
\* gas_cost_usd) / input_amount; "free" the same with a gas cost of 0;
\* "gross" with effective_rate = output_amount / input_amount
QuoteKinds == {"gross", "fetched", "free"}

\* a quote as SplitCalculator reads it, for a request of input_amount inp;
\* the quote at position i of a list comes from source i
SplitQuote(i, er, imp, inp, kind) ==
    LET gas == IF kind = "free" THEN 0 ELSE 10 + i
    IN  [source |-> SplitSources[i], effective_rate |-> er,
         price_impact |-> imp, gas_cost_usd |-> gas, input_amount |-> inp,
         output_amount |-> IF kind = "fetched" THEN er * inp + gas
                           ELSE er * inp]

SplitQuoteLists ==
    UNION {{[i \in 1..n |-> SplitQuote(i, er[i], imp[i], inp, kind)] :
              er \in [1..n -> {250, 251}], imp \in [1..n -> ImpactValues],
              inp \in {2}, kind \in QuoteKinds} : n \in 1..MaxSplitQuotes}

\* the calculator configurations
SplitConfigs ==
    [min_split_size_usd : {DefaultMinSplitSize, 2 * DefaultMinSplitSize},
     max_venues : {DefaultMaxVenues, 1, 0},
     min_allocation_pct : {DefaultMinAllocationPct}]

SplitInputs ==
    [calc : SplitConfigs, quotes : SplitQuoteLists,
     total_amount : 1..MaxAmount, price_usd : {DefaultPriceUsd}]

RECURSIVE SumSeq(_)
SumSeq(xs) == IF xs = <<>> THEN 0 ELSE xs[1] + SumSeq(Tail(xs))

\* max(quotes, key=lambda q: q.effective_rate): the first of the best
BestQuote(quotes) ==
    LET best == MaxOf({quotes[i].effective_rate : i \in 1..Len(quotes)})
        first == MinOf({i \in 1..Len(quotes) : quotes[i].effective_rate = best})
    IN  quotes[first]

\* sorted(quotes, key=lambda q: q.effective_rate, reverse=True): stable
InsertByRate(sorted, q) ==
    LET n == Cardinality({i \in 1..Len(sorted) :
                            sorted[i].effective_rate >= q.effective_rate})
    IN  SubSeq(sorted, 1, n) \o <<q>> \o SubSeq(sorted, n + 1, Len(sorted))

RECURSIVE SortByRate(_)
SortByRate(quotes) ==
    IF quotes = <<>> THEN <<>>
    ELSE InsertByRate(SortByRate(SubSeq(quotes, 1, Len(quotes) - 1)),
                      quotes[Len(quotes)])

\* an allocation whose percentage is taken of the quote's own input amount
CreateAllocationOfQuote(quote, pct, amount) ==
    [source |-> quote.source,
     percentage |-> IF quote.input_amount > 0
                    THEN (amount * 100)
                           \div (quote.input_amount * (AmountUnit \div PctUnit))
                    ELSE 0,
     input_amount |-> amount,
     expected_output |-> IF quote.input_amount > 0
                         THEN quote.output_amount * amount ELSE 0,
     gas_cost_usd |-> quote.gas_cost_usd]

\* _create_allocation; pct in PctUnit-ths, amount in AmountUnit-ths,
\* expected_output in (input_amount * AmountUnit)-ths.  The adjusted
\* price_impact (a square root) is left out.
CreateAllocation(quote, pct, amount) ==
    [source |-> quote.source,
     percentage |-> pct,
     input_amount |-> amount,
     expected_output |-> IF quote.input_amount > 0
                         THEN quote.output_amount * amount ELSE 0,
     gas_cost_usd |-> quote.gas_cost_usd]

\* float(x) of a Decimal percentage n / d
FloatPct(n, d) ==
    IF d % PctUnit = 0 THEN RoundDiv(n, d \div PctUnit)
    ELSE RoundDiv(n * PctUnit, d)

\* the float pct / 100, in AmountUnit-ths
PctFraction(pct) == RoundDiv(pct * (AmountUnit \div PctUnit), 100)

\* amount = total_amount * Decimal(pct / 100), for the last venue too
AmountOf(total, pct) == total * PctFraction(pct)

\* the loop of _optimize_split from venue i on
RECURSIVE SplitLoop(_, _, _, _, _, _)
SplitLoop(calc, venues, total, i, allocations, remaining) ==
    IF i > Len(venues) THEN allocations
    ELSE
      LET last == i = Len(venues)
          total_weight == SumSeq([j \in 1..Len(venues) |-> Weight(venues[j])])
          weighted == FloatPct(Weight(venues[i]) * 100, total_weight)
      IN  IF weighted < calc.min_allocation_pct * PctUnit /\ ~last
          THEN SplitLoop(calc, venues, total, i + 1, allocations, remaining)
          ELSE
            LET pct == IF last
                       THEN FloatPct(remaining * 100, total * AmountUnit)
                       ELSE weighted
                amount == AmountOf(total, pct)
            IN  IF amount > 0
                THEN SplitLoop(calc, venues, total, i + 1,
                               Append(allocations,
                                      CreateAllocation(venues[i], pct, amount)),
                               remaining - amount)
                ELSE SplitLoop(calc, venues, total, i + 1, allocations,
                               remaining)

\* _optimize_split
OptimizeSplit(calc, quotes, total) ==
    LET sorted_quotes == SortByRate(quotes)
        venues == SubSeq(sorted_quotes, 1,
                         IF calc.max_venues < Len(quotes)
                         THEN calc.max_venues ELSE Len(quotes))
    IN  IF Len(venues) = 1
        THEN <<CreateAllocation(venues[1], 100 * PctUnit, total * AmountUnit)>>
        ELSE SplitLoop(calc, venues, total, 1, <<>>, total * AmountUnit)

\* an output amount in the unit of expected_output
OutputOf(quote) == quote.output_amount * quote.input_amount * AmountUnit

\* a gas cost in the unit of net_benefit
GasOfSplit(quotes, gas) == gas * quotes[1].input_amount * AmountUnit

\* _single_venue_recommendation
SingleVenueRecommendation(quote, total) ==
    [allocations |-> <<CreateAllocation(quote, 100 * PctUnit,
                                        total * AmountUnit)>>,
     total_input |-> total * AmountUnit,
     total_output |-> OutputOf(quote),
     single_venue_output |-> OutputOf(quote),
     improvement_amount |-> 0,
     total_gas_cost |-> quote.gas_cost_usd,
     net_benefit |-> 0,
     is_split_beneficial |-> FALSE]

\* a comparison that counts a trade at the threshold as small
BelowOrAtThreshold(trade_size_usd, min_split_size_usd) ==
    trade_size_usd <= min_split_size_usd

\* trade_size_usd < self.min_split_size_usd
BelowThreshold(trade_size_usd, min_split_size_usd) ==
    trade_size_usd < min_split_size_usd

\* a benefit of zero counted as a benefit
IsBeneficialOrEven(net_benefit) == net_benefit >= 0

\* is_beneficial = net_benefit > 0
IsBeneficial(net_benefit) == net_benefit > 0

\* calculate_split for a non-empty quote list
CalculateSplit(calc, quotes, total, price_usd) ==
    IF BelowThreshold(total * price_usd, calc.min_split_size_usd)
    THEN SingleVenueRecommendation(BestQuote(quotes), total)
    ELSE
      LET allocations == OptimizeSplit(calc, quotes, total)
      IN  IF allocations = <<>>
          THEN SingleVenueRecommendation(BestQuote(quotes), total)
          ELSE
            LET total_output ==
                  SumSeq([i \in 1..Len(allocations) |->
                            allocations[i].expected_output])
                total_gas ==
                  SumSeq([i \in 1..Len(allocations) |->
                            allocations[i].gas_cost_usd])
                best_single == BestQuote(quotes)
                improvement == total_output - OutputOf(best_single)
                extra_gas == total_gas - best_single.gas_cost_usd
                net_benefit == improvement - GasOfSplit(quotes, extra_gas)
            IN  [allocations |-> allocations,
                 total_input |-> total * AmountUnit,
                 total_output |-> total_output,
                 single_venue_output |-> OutputOf(best_single),
                 improvement_amount |-> improvement,
                 total_gas_cost |-> total_gas,
                 net_benefit |-> net_benefit,
                 is_split_beneficial |-> IsBeneficial(net_benefit)]

\* a caller asks for a split
SplitCall ==
    /\ splitpc = "input"
    /\ splitOut' = CalculateSplit(splitIn.calc, splitIn.quotes,
                                  splitIn.total_amount, splitIn.price_usd)
    /\ splitpc' = "done"
    /\ UNCHANGED <<splitIn, fetchVars, rankVars, mevVars>>

\* ------------------------------------------------------------------------
\* Specification of the split: any calculator, quote list and amount
\* ------------------------------------------------------------------------
InitSplit ==
    /\ InitFetcher
    /\ mainpc = "library"
    /\ args = NoArgs
    /\ exitCode = -1
    /\ printed = {}
    /\ analyses = {}
    /\ RankIdle
    /\ MevIdle
    /\ splitIn \in SplitInputs
    /\ splitOut = "none"
    /\ splitpc = "input"

NextSplit == SplitCall

SpecSplit == InitSplit /\ [][NextSplit]_vars

\* ------------------------------------------------------------------------
\* mev_assessor.py: MEVAssessor
\*
\* Units.  A trade value is in thousands of dollars, a price impact in
\* tenths of a percent, a factor weight in twentieths, a risk score in
\* quarters of a point (every factor score is a multiple of 5, so the
\* weighted mean is a whole number of quarters), an exposure in
\* ExposureUnit-ths of a dollar.
\* ------------------------------------------------------------------------
\* FACTOR_WEIGHTS, in twentieths
FactorWeights ==
    [trade_size |-> 7, price_impact |-> 5, route_complexity |-> 3,
     token_volatility |-> 3, liquidity_depth |-> 2]

\* PROTECTION_OPTIONS, by name
ProtectionOptions ==
    <<"Flashbots Protect", "CoW Swap", "MEV Blocker", "Private Transaction",
      "Slippage Tightening">>

RiskLevels == <<"LOW", "MEDIUM", "HIGH", "CRITICAL">>

\* trade values around the steps of _score_trade_size, and one below zero
TradeValues == {0 - 1, 0, 1, 5, 10, 50, 100, 250}

\* price impacts around the steps of _score_price_impact, and one beyond
\* any trade
MevImpacts == {0, 1, 5, 10, 20, 50, 2000}

\* gas estimates around the steps of _score_liquidity
MevGasEstimates == {50000, 100000, 150000, 200000, 300000}

\* a quote as MEVAssessor reads it
MevQuotes ==
    [price_impact : MevImpacts, protocols : 1..4,
     gas_estimate : MevGasEstimates]

MevInputs ==
    [volatility_multiplier : {1, 2}, quote : MevQuotes,
     trade_value_usd : TradeValues, is_volatile_token : BOOLEAN]

\* a step function that comes down again for the largest trades
ScoreTradeSizeDip(trade_value_usd) ==
    IF trade_value_usd < 1 THEN 10
    ELSE IF trade_value_usd < 5 THEN 25
    ELSE IF trade_value_usd < 10 THEN 40
    ELSE IF trade_value_usd < 50 THEN 60
    ELSE IF trade_value_usd < 100 THEN 80
    ELSE 59

\* _score_trade_size
ScoreTradeSize(trade_value_usd) ==
    IF trade_value_usd < 1 THEN 10
    ELSE IF trade_value_usd < 5 THEN 25
    ELSE IF trade_value_usd < 10 THEN 40
    ELSE IF trade_value_usd < 50 THEN 60
    ELSE IF trade_value_usd < 100 THEN 80
    ELSE 95

\* _score_price_impact
ScorePriceImpact(price_impact) ==
    IF price_impact < 1 THEN 10
    ELSE IF price_impact < 5 THEN 30
    ELSE IF price_impact < 10 THEN 50
    ELSE IF price_impact < 20 THEN 70
    ELSE IF price_impact < 50 THEN 85
    ELSE 95

\* _score_route_complexity, of len(protocols)
ScoreRouteComplexity(num_protocols) ==
    IF num_protocols <= 1 THEN 20
    ELSE IF num_protocols = 2 THEN 40
    ELSE IF num_protocols = 3 THEN 60
    ELSE 80

\* _score_liquidity
ScoreLiquidity(gas_estimate) ==
    IF gas_estimate < 100000 THEN 20
    ELSE IF gas_estimate < 150000 THEN 35
    ELSE IF gas_estimate < 200000 THEN 50
    ELSE IF gas_estimate < 300000 THEN 70
    ELSE 85

\* _calculate_risk_factors
CalculateRiskFactors(assessor, quote, trade_value_usd, is_volatile_token) ==
    <<[name |-> "Trade Size", score |-> ScoreTradeSize(trade_value_usd),
       weight |-> FactorWeights.trade_size],
      [name |-> "Price Impact", score |-> ScorePriceImpact(quote.price_impact),
       weight |-> FactorWeights.price_impact],
      [name |-> "Route Complexity",
       score |-> ScoreRouteComplexity(quote.protocols),
       weight |-> FactorWeights.route_complexity],
      [name |-> "Token Volatility",
       score |-> Smaller(100, (IF is_volatile_token THEN 80 ELSE 30)
                                * assessor.volatility_multiplier),
       weight |-> FactorWeights.token_volatility],
      [name |-> "Liquidity Depth", score |-> ScoreLiquidity(quote.gas_estimate),
       weight |-> FactorWeights.liquidity_depth]>>

\* a classification that keeps a score on a boundary in the lower class
ClassifyRiskInclusive(risk_score) ==
    IF risk_score <= 25 * 4 THEN "LOW"
    ELSE IF risk_score <= 50 * 4 THEN "MEDIUM"
    ELSE IF risk_score <= 75 * 4 THEN "HIGH"
    ELSE "CRITICAL"

\* _classify_risk, of a score in quarters
ClassifyRisk(risk_score) ==
    IF risk_score < 25 * 4 THEN "LOW"
    ELSE IF risk_score < 50 * 4 THEN "MEDIUM"
    ELSE IF risk_score < 75 * 4 THEN "HIGH"
    ELSE "CRITICAL"

\* a dollar in exposure units: 1000 / (4 * 100 * 100 * 1000) of a thousand
ExposureUnit == 4 * 100 * 100

\* an estimate without the cap
EstimateMevExposureUncapped(trade_value_usd, risk_score, price_impact) ==
    trade_value_usd * (risk_score * 2) * (1000 + price_impact)

\* _estimate_mev_exposure
EstimateMevExposure(trade_value_usd, risk_score, price_impact) ==
    LET estimated_mev ==
          trade_value_usd * (risk_score * 2) * (1000 + price_impact)
        cap == trade_value_usd * 50 * ExposureUnit
    IN  Smaller(estimated_mev, cap)

\* PROTECTION_OPTIONS[a:b]
OptionSlice(a, b) == SubSeq(ProtectionOptions, a + 1, b)

\* _get_protection_options
GetProtectionOptions(risk_level) ==
    IF risk_level = "LOW" THEN <<ProtectionOptions[4 + 1]>>
    ELSE IF risk_level = "MEDIUM" THEN OptionSlice(2, 5)
    ELSE IF risk_level = "HIGH" THEN OptionSlice(0, 4)
    ELSE ProtectionOptions

\* assess_risk
AssessRisk(assessor, quote, trade_value_usd, is_volatile_token) ==
    LET risk_factors ==
          CalculateRiskFactors(assessor, quote, trade_value_usd,
                               is_volatile_token)
        total_weight ==
          SumSeq([i \in 1..Len(risk_factors) |-> risk_factors[i].weight])
        risk_score ==
          (SumSeq([i \in 1..Len(risk_factors) |->
                     risk_factors[i].score * risk_factors[i].weight]) * 4)
            \div total_weight
        risk_level == ClassifyRisk(risk_score)
    IN  [risk_level |-> risk_level,
         risk_score |-> risk_score,
         estimated_mev_exposure_usd |->
           EstimateMevExposure(trade_value_usd, risk_score, quote.price_impact),
         risk_factors |-> risk_factors,
         protection_options |-> GetProtectionOptions(risk_level)]

\* a caller asks for an assessment
AssessCall ==
    /\ mevpc = "input"
    /\ mevOut' = AssessRisk([volatility_multiplier |-> mevIn.volatility_multiplier],
                            mevIn.quote, mevIn.trade_value_usd,
                            mevIn.is_volatile_token)
    /\ mevpc' = "done"
    /\ UNCHANGED <<mevIn, fetchVars, rankVars, splitVars>>

\* ------------------------------------------------------------------------
\* Specification of the assessment: any assessor, quote and trade value
\* ------------------------------------------------------------------------
InitMev ==
    /\ InitFetcher
    /\ mainpc = "library"
    /\ args = NoArgs
    /\ exitCode = -1
    /\ printed = {}
    /\ analyses = {}
    /\ RankIdle
    /\ SplitIdle
    /\ mevIn \in MevInputs
    /\ mevOut = "none"
    /\ mevpc = "input"

NextMev == AssessCall

SpecMev == InitMev /\ [][NextMev]_vars

\* ------------------------------------------------------------------------
\* The components called again and again on the same inputs while the
\* clock runs: quotes carry their timestamp, and is_expired is read from
\* the clock at each call of rank_quotes
\* ------------------------------------------------------------------------
\* the longest quote list ranked again and again
MaxUseQuotes == 2

\* valid_for_seconds: int = 30
ValidForSeconds == 30

\* the quotes were built at the start of the clock or one tick before
UseTimestamps == {StartClock - 1, StartClock}

\* the clock at the calls: the start, and the instants at which the quotes
\* built at the start are valid_for_seconds old and one tick older
UseClock ==
    {StartClock, StartClock + ValidForSeconds * TicksPerSecond,
     StartClock + ValidForSeconds * TicksPerSecond + 1}

\* a quote as the fetcher leaves it, with its timestamp
TimedQuotes ==
    {[source |-> "1inch", effective_rate |-> er, gas_cost_usd |-> g,
      output_amount |-> er + g, timestamp |-> ts,
      valid_for_seconds |-> ValidForSeconds] :
        er \in {250, 253}, g \in GasValues, ts \in UseTimestamps}

UseRankInputs == UNION {[1..n -> TimedQuotes] : n \in 0..MaxUseQuotes}

UseSplitInputs ==
    [calc : {[min_split_size_usd |-> DefaultMinSplitSize,
              max_venues |-> DefaultMaxVenues,
              min_allocation_pct |-> DefaultMinAllocationPct]},
     quotes : {<<SplitQuote(1, 250, 0, 2, "fetched"),
                 SplitQuote(2, 251, 14, 2, "fetched")>>},
     total_amount : {1, 2},
     price_usd : {DefaultPriceUsd}]

UseMevInputs ==
    [volatility_multiplier : {1},
     quote : {[price_impact |-> 5, protocols |-> 2, gas_estimate |-> 150000]},
     trade_value_usd : {10},
     is_volatile_token : BOOLEAN]

\* a quote counted as expired from the age valid_for_seconds on
IsExpiredAtLimit(q, t) ==
    t - q.timestamp >= q.valid_for_seconds * TicksPerSecond

\* is_expired when the clock shows t: age > self.valid_for_seconds
IsExpired(q, t) ==
    t - q.timestamp > q.valid_for_seconds * TicksPerSecond

\* the quote as rank_quotes reads it when the clock shows t
QuoteAt(q, t) ==
    [f \in DOMAIN q \cup {"expired"} |->
       IF f = "expired" THEN IsExpired(q, t) ELSE q[f]]

\* the quote object a route refers to
QuoteItself(q) == [f \in DOMAIN q \ {"expired"} |-> q[f]]

RouteItself(a) == [a EXCEPT !.quote = QuoteItself(a.quote)]

\* rank_quotes called when the clock shows t
RankQuotesAt(qs, t) ==
    LET ranked == RankQuotesOf([i \in 1..Len(qs) |-> QuoteAt(qs[i], t)])
    IN  [i \in 1..Len(ranked) |-> RouteItself(ranked[i])]

\* compare_routes called when the clock shows t
CompareRoutesAt(qs, t) ==
    LET c == CompareRoutes([i \in 1..Len(qs) |-> QuoteAt(qs[i], t)])
    IN  IF qs = <<>> THEN c
        ELSE [c EXCEPT
                !.best_route = RouteItself(c.best_route),
                !.all_routes = [i \in 1..Len(c.all_routes) |->
                                  RouteItself(c.all_routes[i])]]

\* a calculator that sorts the caller's list: quotes.sort(...)
QuotesSortedInPlace(quotes) == SortByRate(quotes)

\* the caller's list after calculate_split: sorted(quotes, ...) and the
\* slice build new lists, quotes is only read
QuotesAfterSplit(quotes) == quotes

\* a caller ranks its list, for the first time or again
UseRank ==
    /\ rankpc \in {"input", "ranked", "compared"}
    /\ rankOut' = RankQuotesAt(rankIn, now)
    /\ rankpc' = "ranked"
    /\ rankAt' = now
    /\ UNCHANGED <<rankIn, fetchVars, splitVars, mevVars>>

\* a caller compares the routes of its list, for the first time or again
UseCompare ==
    /\ rankpc \in {"input", "ranked", "compared"}
    /\ rankOut' = CompareRoutesAt(rankIn, now)
    /\ rankpc' = "compared"
    /\ rankAt' = now
    /\ UNCHANGED <<rankIn, fetchVars, splitVars, mevVars>>

\* a caller asks for a split, for the first time or again
UseSplit ==
    /\ splitpc \in {"input", "done"}
    /\ splitOut' = CalculateSplit(splitIn.calc, splitIn.quotes,
                                  splitIn.total_amount, splitIn.price_usd)
    /\ splitIn' = [splitIn EXCEPT !.quotes = QuotesAfterSplit(@)]
    /\ splitpc' = "done"
    /\ UNCHANGED <<fetchVars, rankVars, mevVars>>

\* a caller asks for an assessment, for the first time or again
UseAssess ==
    /\ mevpc \in {"input", "done"}
    /\ mevOut' = AssessRisk([volatility_multiplier |->
                               mevIn.volatility_multiplier],
                            mevIn.quote, mevIn.trade_value_usd,
                            mevIn.is_volatile_token)
    /\ mevpc' = "done"
    /\ UNCHANGED <<mevIn, fetchVars, rankVars, splitVars>>

\* time passes between two calls
UseWait ==
    /\ \E t \in UseClock : t > now /\ now' = t
    /\ UNCHANGED <<lastReq, call, task, passGap, httpCount, started, mainpc,
                   args, exitCode, printed, analyses>>
    /\ UNCHANGED pureVars

InitUse ==
    /\ InitFetcher
    /\ mainpc = "library"
    /\ args = NoArgs
    /\ exitCode = -1
    /\ printed = {}
    /\ analyses = {}
    /\ rankIn \in UseRankInputs
    /\ rankOut = <<>>
    /\ rankpc = "input"
    /\ rankAt = 0
    /\ splitIn \in UseSplitInputs
    /\ splitOut = "none"
    /\ splitpc = "input"
    /\ mevIn \in UseMevInputs
    /\ mevOut = "none"
    /\ mevpc = "input"

NextUse == UseRank \/ UseCompare \/ UseSplit \/ UseAssess \/ UseWait

SpecUse == InitUse /\ [][NextUse]_vars

\* ------------------------------------------------------------------------
\* Properties
\* ------------------------------------------------------------------------
\* the source's task got an answer from which a quote can be built
Succeeded(c, s) ==
    /\ task[c][s].pc = "done"
    /\ httpCount[c][s] > 0
    /\ ~task[c][s].resp.exc
    /\ task[c][s].resp.status = 200
    /\ task[c][s].resp.json = "dict"
    /\ (task[c][s].resp.hasOut => task[c][s].resp.outNumeric)

\* the source's task ended without a usable answer
Failed(c, s) == task[c][s].pc = "done" /\ ~Succeeded(c, s)

HasQuoteFrom(c, s) ==
    \E i \in 1..Len(call[c].quotes) : call[c].quotes[i].source = QuoteSource(s)

UnknownSymbol(sym, chain) ==
    Upper(sym) \notin TokenAddresses(chain) /\ sym # AddressToken

UnknownToken(p) ==
    UnknownSymbol(p.from_token, p.chain) \/ UnknownSymbol(p.to_token, p.chain)

\* C1: whatever subset of the launched sources fails (timeout, non-200
\* status, malformed JSON, raised exception), fetch_all_quotes returns
\* normally, never by an exception, and the list it returns holds the quote
\* of every source that succeeded.
C1_FailuresContained ==
    \A c \in Calls :
      /\ call[c].phase # "raised"
      /\ call[c].phase = "returned" =>
           \A s \in Sources :
             Succeeded(c, s) =>
               \E i \in 1..Len(call[c].quotes) :
                 call[c].quotes[i] = task[c][s].result.q

C1_Witness ==
    \E c \in Calls :
      /\ call[c].phase = "returned"
      /\ \E s \in Sources : Failed(c, s) /\ task[c][s].resp.timedOut
      /\ \E s \in Sources : Failed(c, s) /\ task[c][s].resp.status = 500
      /\ \E s \in Sources : Succeeded(c, s) /\ HasQuoteFrom(c, s)

\* C2: fetch_all_quotes returns only after every task it launched has
\* finished, and no quote reaches the caller before that join.
C2_JoinBeforeReturn ==
    \A c \in Calls :
      /\ call[c].phase = "returned" =>
           \A s \in Sources : task[c][s].pc \in {"unlaunched", "done"}
      /\ call[c].phase # "returned" => call[c].quotes = <<>>

C2_Witness ==
    \E c \in Calls :
      /\ call[c].phase = "returned"
      /\ \E s \in Sources : task[c][s].pc = "done" /\ task[c][s].dur = 0
                              /\ Succeeded(c, s)
      /\ \E s \in Sources : task[c][s].pc = "done" /\ task[c][s].dur = Timeout
      /\ call[c].finish = call[c].start + Timeout

\* C3: two requests that pass one source's rate limiter on the same
\* QuoteFetcher are at least the source's minimum interval apart, also when
\* calls of fetch_all_quotes overlap on the fetcher.
C3_MinIntervalKept ==
    \A s \in Sources : passGap[s] = NoGap \/ passGap[s] >= MinInterval(s)

C5_AllFailedExit ==
    /\ \A c \in Calls :
         (call[c].phase = "returned" /\ \A s \in Sources : ~Succeeded(c, s))
           => call[c].quotes = <<>>
    /\ (mainpc = "exited" /\ call[1].phase # "idle"
          /\ \A s \in Sources : ~Succeeded(1, s))
         => /\ call[1].phase = "returned"
            /\ exitCode = 1
            /\ "no_quotes_guidance" \in printed
            /\ analyses = {}
    /\ "no_quotes_guidance" \in printed => call[1].phase = "returned"

C5_Witness ==
    /\ mainpc = "exited"
    /\ exitCode = 1
    /\ "no_quotes_guidance" \in printed
    /\ \A s \in Sources : Failed(1, s) /\ httpCount[1][s] = 1

\* C6 as stated: a 200 response that lacks the output amount or the gas
\* estimate gives no quote from that source.
C6_MissingFieldsNoQuote ==
    \A c \in Calls :
      call[c].phase = "returned" =>
        \A s \in Sources :
          (task[c][s].pc = "done" /\ MissingFields(task[c][s].resp))
            => ~HasQuoteFrom(c, s)

\* C6 amended: a 200 response whose JSON object lacks the output amount or
\* the gas estimate gives a quote built from defaults: output amount 0 when
\* the output amount is missing, gas estimate 150000 when the gas estimate
\* is missing, the field of the response otherwise.
C6_MissingFieldsDefaulted ==
    \A c \in Calls :
      call[c].phase = "returned" =>
        \A s \in Sources :
          (task[c][s].pc = "done" /\ MissingFields(task[c][s].resp)) =>
            \E i \in 1..Len(call[c].quotes) :
              LET q == call[c].quotes[i]
                  r == task[c][s].resp
              IN  /\ q.source = QuoteSource(s)
                  /\ q.output_raw = IF r.hasOut THEN r.out ELSE 0
                  /\ q.gas_estimate = IF r.hasGas THEN r.gas ELSE 150000

C6_Witness ==
    \E c \in Calls :
      /\ call[c].phase = "returned"
      /\ \E s \in Sources : task[c][s].pc = "done" /\ task[c][s].resp = RespNoOut
                              /\ HasQuoteFrom(c, s)
      /\ \E s \in Sources : task[c][s].pc = "done" /\ task[c][s].resp = RespNoGas
                              /\ HasQuoteFrom(c, s)

\* the longest request of a call
LongestDuration(c) == MaxOf({task[c][s].dur : s \in Sources})

\* C7: the per-source requests of a call overlap in time: the call returns
\* when its longest request is over (one timeout when a source times out),
\* not after the sum of the requests, with exactly the quotes of the sources
\* that answered.
C7_WaitIsLongestRequest ==
    \A c \in Calls :
      call[c].phase = "returned" =>
        /\ call[c].finish - call[c].start = LongestDuration(c)
        /\ call[c].finish - call[c].start <= Timeout
        /\ \A s \in Sources : HasQuoteFrom(c, s) <=> Succeeded(c, s)

C7_Witness ==
    \E c \in Calls :
      /\ call[c].phase = "returned"
      /\ task[c]["paraswap"].resp = RespTimeout
      /\ task[c]["1inch"].resp = RespFull /\ task[c]["1inch"].dur = 0
      /\ task[c]["0x"].resp = RespFull /\ task[c]["0x"].dur = 0
      /\ Len(call[c].quotes) = 2
      /\ call[c].finish - call[c].start = Timeout

\* C8: within one call of fetch_all_quotes each source's endpoint is called
\* at most once; a source that failed or timed out is not asked again.
C8_NoRetry ==
    \A c \in Calls : \A s \in Sources :
      /\ httpCount[c][s] <= 1
      /\ Failed(c, s) => task[c][s].result = ResNone

C8_Witness ==
    \E c \in Calls : \E s \in Sources :
      /\ call[c].phase = "returned"
      /\ Failed(c, s)
      /\ task[c][s].resp.timedOut
      /\ httpCount[c][s] = 1

BadAmount(str) ==
    \/ ParseDecimal(str).kind # "num"
    \/ ParseDecimal(str).val <= 0

\* C9 as stated: a request whose amount is non-positive or non-numeric is
\* rejected before any fetch: no call of fetch_all_quotes, no source queried.
C9_BadAmountRejected ==
    BadAmount(args.amount) =>
      /\ call[1].phase = "idle"
      /\ \A s \in Sources : httpCount[1][s] = 0

\* C9 amended: an amount that Decimal() cannot parse is rejected with exit
\* status 1 before any fetch; a non-positive amount is not rejected:
\* fetch_all_quotes is called with it.
C9_UnparsableAmountRejected ==
    /\ ParseDecimal(args.amount).kind = "invalid" =>
         /\ call[1].phase = "idle"
         /\ \A s \in Sources : httpCount[1][s] = 0
         /\ mainpc \in {"start", "exited"}
         /\ mainpc = "exited" => exitCode = 1 /\ "invalid_amount" \in printed
    /\ (ParseDecimal(args.amount).kind = "num" /\ mainpc \in {"awaiting", "exited"})
         => call[1].phase # "idle"

C9_Witness ==
    /\ args.amount = "abc"
    /\ mainpc = "exited"
    /\ exitCode = 1

\* C10: for a quote list of at least 2 entries the output of rank_quotes is
\* sorted by non-increasing score, and the element at position i has rank i.
C10_SortedByScore ==
    (rankpc = "ranked" /\ Len(rankIn) >= 2) =>
      /\ Len(rankOut) = Len(rankIn)
      /\ \A i \in 1..Len(rankOut) : rankOut[i].rank = i
      /\ \A i \in 1..(Len(rankOut) - 1) : rankOut[i].score >= rankOut[i + 1].score

C10_Witness ==
    /\ rankpc = "ranked"
    /\ Len(rankIn) = 3
    /\ rankOut[1].score > rankOut[2].score
    /\ rankOut[2].score > rankOut[3].score
    /\ rankOut[1].quote = rankIn[3]
    /\ rankOut[3].quote = rankIn[1]

\* position of a source name in lexicographic (code point) order
NameRank(name) ==
    CASE name = "0x" -> 1
      [] name = "1inch" -> 2
      [] name = "Other" -> 3
      [] name = "Paraswap" -> 4

\* the reorderings of a list
Orderings(n) == {p \in [1..n -> 1..n] : \A i, j \in 1..n : p[i] = p[j] => i = j}

Reordered(qs, p) == [i \in 1..Len(qs) |-> qs[p[i]]]

\* the quotes of a ranking, best first
QuotesOf(as) == [i \in 1..Len(as) |-> as[i].quote]

\* the quotes of a list whose score in the candidate set qs is k, in order
WithScore(list, qs, k) ==
    LET Test(q) == CalculateScore(q, qs) = k
    IN  SelectSeq(list, Test)

\* C11 as stated: of two quotes with equal scores the one with the lower
\* gas cost is ranked first, with equal gas costs the one with the smaller
\* source name, so the ranking is the same for every order of the input.
C11_TiesByGasThenName ==
    rankpc = "ranked" =>
      /\ \A i, j \in 1..Len(rankOut) :
            (i < j /\ rankOut[i].score = rankOut[j].score) =>
              \/ rankOut[i].quote.gas_cost_usd < rankOut[j].quote.gas_cost_usd
              \/ /\ rankOut[i].quote.gas_cost_usd = rankOut[j].quote.gas_cost_usd
                 /\ NameRank(rankOut[i].quote.source)
                      <= NameRank(rankOut[j].quote.source)
      /\ \A p \in Orderings(Len(rankIn)) :
            RankQuotesOf(Reordered(rankIn, p)) = rankOut

\* C11 amended: quotes with equal scores are ranked in the order they have
\* in the input list, whatever their gas costs and source names.
C11_TiesKeepInputOrder ==
    rankpc = "ranked" =>
      /\ Len(rankOut) = Len(rankIn)
      /\ \A i \in 1..Len(rankIn) :
            LET k == CalculateScore(rankIn[i], rankIn)
            IN  WithScore(QuotesOf(rankOut), rankIn, k)
                  = WithScore(rankIn, rankIn, k)

\* two quotes tie, and the one with the higher gas cost, first in the
\* input, is ranked above the other
C11_Witness ==
    /\ rankpc = "ranked"
    /\ \E i \in 1..Len(rankOut) - 1 :
          /\ rankOut[i].score = rankOut[i + 1].score
          /\ rankOut[i].quote.gas_cost_usd > rankOut[i + 1].quote.gas_cost_usd

\* the quote has the strictly highest rate and the strictly lowest gas cost
\* of the list, is not expired, and no source of the list is more reliable
Dominates(qs, i) ==
    /\ ~qs[i].expired
    /\ \A j \in 1..Len(qs) :
          j # i =>
            /\ qs[j].effective_rate < qs[i].effective_rate
            /\ qs[j].gas_cost_usd > qs[i].gas_cost_usd
            /\ Reliability(qs[j].source) <= Reliability(qs[i].source)

\* C12: the 2542.09 quote of the three demo quotes is ranked first, and so
\* is every fresh quote with the strictly highest rate, the strictly lowest
\* gas cost and a source at least as reliable as the others.
C12_BestRateAndGasFirst ==
    rankpc = "ranked" =>
      /\ rankIn = DemoQuotes => rankOut[1].quote = DemoQuotes[1]
      /\ \A i \in 1..Len(rankIn) :
            Dominates(rankIn, i) =>
              /\ rankOut[1].quote = rankIn[i]
              /\ rankOut[1].rank = 1

C12_Witness ==
    /\ rankpc = "ranked"
    /\ rankIn = DemoQuotes
    /\ Dominates(rankIn, 1)
    /\ rankOut[1].quote.effective_rate = 254209
    /\ rankOut[2].quote.source = "0x"
    /\ rankOut[3].quote.source = "Paraswap"

SumPercentage(r) ==
    SumSeq([i \in 1..Len(r.allocations) |-> r.allocations[i].percentage])

SumInputAmount(r) ==
    SumSeq([i \in 1..Len(r.allocations) |-> r.allocations[i].input_amount])

\* the percentages add up to 100 within 0.01
PercentagesAddUp(r) ==
    /\ (SumPercentage(r) - 100 * PctUnit) * 100 <= PctUnit
    /\ (100 * PctUnit - SumPercentage(r)) * 100 <= PctUnit

\* C13: the percentages of the allocations of a result add up to 100 within
\* 0.01 and their input amounts add up to total_amount exactly.
C13_AllocationsAddUp ==
    splitpc = "done" =>
      /\ PercentagesAddUp(splitOut)
      /\ SumInputAmount(splitOut) = splitIn.total_amount * AmountUnit

TradeValue == splitIn.total_amount * splitIn.price_usd

\* every quote has the same price impact
SameImpact(quotes) ==
    \A i, j \in 1..Len(quotes) : quotes[i].price_impact = quotes[j].price_impact

\* C14: a trade worth strictly less than the minimum split size gets one
\* allocation of 100% to the quote with the highest effective rate and is
\* not split-beneficial; a trade worth exactly the minimum is split.
C14_SmallTradeSingleVenue ==
    splitpc = "done" =>
      /\ TradeValue < splitIn.calc.min_split_size_usd =>
           /\ Len(splitOut.allocations) = 1
           /\ splitOut.allocations[1].percentage = 100 * PctUnit
           /\ splitOut.allocations[1].input_amount
                = splitIn.total_amount * AmountUnit
           /\ \E i \in 1..Len(splitIn.quotes) :
                /\ splitIn.quotes[i].source = splitOut.allocations[1].source
                /\ \A j \in 1..Len(splitIn.quotes) :
                     splitIn.quotes[j].effective_rate
                       <= splitIn.quotes[i].effective_rate
           /\ ~splitOut.is_split_beneficial
      /\ (/\ TradeValue = splitIn.calc.min_split_size_usd
          /\ splitIn.calc.max_venues >= 2
          /\ SameImpact(splitIn.quotes)) =>
           Len(splitOut.allocations)
             = Smaller(Len(splitIn.quotes), splitIn.calc.max_venues)

\* a small trade with three quotes, the best of them the last
C14_Witness ==
    /\ splitpc = "done"
    /\ TradeValue < DefaultMinSplitSize
    /\ splitIn.calc.min_split_size_usd = DefaultMinSplitSize
    /\ splitIn.calc.max_venues = DefaultMaxVenues
    /\ Len(splitIn.quotes) = 3
    /\ splitIn.quotes[1].effective_rate < splitIn.quotes[3].effective_rate
    /\ splitIn.quotes[2].effective_rate < splitIn.quotes[3].effective_rate
    /\ Len(splitOut.allocations) = 1
    /\ splitOut.allocations[1].source = splitIn.quotes[3].source

\* C15: a single quote gets the one allocation, of 100%, whatever the amount
\* and the price.
C15_OneQuoteOneAllocation ==
    (splitpc = "done" /\ Len(splitIn.quotes) = 1) =>
      /\ Len(splitOut.allocations) = 1
      /\ splitOut.allocations[1].percentage = 100 * PctUnit

\* a single quote for a trade above the minimum split size whose amount is
\* not the amount the quote was asked for
C15_Witness ==
    /\ splitpc = "done"
    /\ Len(splitIn.quotes) = 1
    /\ TradeValue > splitIn.calc.min_split_size_usd
    /\ splitIn.total_amount > splitIn.quotes[1].input_amount
    /\ splitIn.calc.max_venues = DefaultMaxVenues
    /\ Len(splitOut.allocations) = 1

SumExpectedOutput(r) ==
    SumSeq([i \in 1..Len(r.allocations) |-> r.allocations[i].expected_output])

SumGasCost(r) ==
    SumSeq([i \in 1..Len(r.allocations) |-> r.allocations[i].gas_cost_usd])

\* (sum of expected_output - output_amount of the best quote)
\*   - (sum of gas_cost_usd - gas_cost_usd of the best quote)
NetBenefitFormula(r, quotes) ==
    (SumExpectedOutput(r) - OutputOf(BestQuote(quotes)))
      - GasOfSplit(quotes, SumGasCost(r) - BestQuote(quotes).gas_cost_usd)

\* the result is the single-venue recommendation: the trade is small or
\* no venue is allowed
SingleVenueResult ==
    \/ TradeValue < splitIn.calc.min_split_size_usd
    \/ splitIn.calc.max_venues = 0

LevelRank(level) ==
    CHOOSE i \in 1..Len(RiskLevels) : RiskLevels[i] = level

\* the assessment of the same quote by the same assessor for another value
AssessedFor(v) ==
    AssessRisk([volatility_multiplier |-> mevIn.volatility_multiplier],
               mevIn.quote, v, mevIn.is_volatile_token)

\* C17: with the quote, the volatility flag and the assessor fixed, a larger
\* trade value never has a lower risk score nor a lower risk level.
C17_ScoreMonotoneInValue ==
    mevpc = "done" =>
      \A v \in TradeValues :
        mevIn.trade_value_usd <= v =>
          /\ mevOut.risk_score <= AssessedFor(v).risk_score
          /\ LevelRank(mevOut.risk_level) <= LevelRank(AssessedFor(v).risk_level)

\* an assessment whose score and level both rise with the trade value
C17_Witness ==
    /\ mevpc = "done"
    /\ mevOut.risk_level = "LOW"
    /\ \E v \in TradeValues :
         /\ mevIn.trade_value_usd < v
         /\ mevOut.risk_score < AssessedFor(v).risk_score
         /\ AssessedFor(v).risk_level = "HIGH"

\* C18: a score below 25 is LOW, from 25 and below 50 MEDIUM, from 50 and
\* below 75 HIGH, from 75 CRITICAL, and the level of an assessment is the
\* class of its score.
C18_LevelOfScore ==
    mevpc = "done" =>
      /\ mevOut.risk_level = "LOW" <=> mevOut.risk_score < 25 * 4
      /\ mevOut.risk_level = "MEDIUM" <=>
           (25 * 4 <= mevOut.risk_score /\ mevOut.risk_score < 50 * 4)
      /\ mevOut.risk_level = "HIGH" <=>
           (50 * 4 <= mevOut.risk_score /\ mevOut.risk_score < 75 * 4)
      /\ mevOut.risk_level = "CRITICAL" <=> 75 * 4 <= mevOut.risk_score

\* an assessment whose score is exactly 50
C18_Witness ==
    /\ mevpc = "done"
    /\ mevOut.risk_score = 50 * 4
    /\ mevOut.risk_level = "HIGH"

\* C19: for a trade value of at least zero the exposure is the smaller of
\* value x (score / 100 x 0.02) x (1 + impact / 100) and 5% of the value,
\* so never above 5% of the value.
C19_ExposureCapped ==
    (mevpc = "done" /\ mevIn.trade_value_usd >= 0) =>
      LET v == mevIn.trade_value_usd
          rate == mevOut.risk_score * 2 * (1000 + mevIn.quote.price_impact)
          cap == 50 * ExposureUnit
      IN  /\ mevOut.estimated_mev_exposure_usd <= v * cap
          /\ rate <= cap => mevOut.estimated_mev_exposure_usd = v * rate
          /\ rate > cap => mevOut.estimated_mev_exposure_usd = v * cap

\* an assessment whose uncapped estimate is above 5% of the trade value
C19_Witness ==
    /\ mevpc = "done"
    /\ mevIn.trade_value_usd > 0
    /\ mevOut.risk_score * 2 * (1000 + mevIn.quote.price_impact)
         > 50 * ExposureUnit
    /\ mevOut.estimated_mev_exposure_usd
         = mevIn.trade_value_usd * 50 * ExposureUnit

\* the options of a list
OptionSet(options) == {options[i] : i \in 1..Len(options)}

\* the options selected for the level below
OptionsBelow(level) ==
    IF LevelRank(level) = 1 THEN {}
    ELSE OptionSet(GetProtectionOptions(RiskLevels[LevelRank(level) - 1]))

\* C20: LOW selects Slippage Tightening alone, CRITICAL every
\* option, and the options of a level include those of the level below.
C20_OptionsCumulative ==
    mevpc = "done" =>
      /\ mevOut.risk_level = "LOW" =>
           mevOut.protection_options = <<"Slippage Tightening">>
      /\ mevOut.risk_level = "CRITICAL" =>
           OptionSet(mevOut.protection_options) = OptionSet(ProtectionOptions)
      /\ OptionsBelow(mevOut.risk_level) \subseteq
           OptionSet(mevOut.protection_options)

\* the linear interpolation of x between lo and hi onto [0, top], top when
\* lo = hi, as the fraction <<numerator, denominator>>
Interpolation(x, lo, hi, top) ==
    IF hi > lo THEN <<(x - lo) * top, hi - lo>> ELSE <<top, 1>>

\* the inverted interpolation: top at lo, 0 at hi, top when lo = hi
InvertedInterpolation(x, lo, hi, top) ==
    IF hi > lo THEN <<(hi - x) * top, hi - lo>> ELSE <<top, 1>>

\* the four components of the score of q among qs: output and gas as
\* fractions, reliability in tenths of a point, freshness in points
ScoreParts(q, qs) ==
    [output |-> Interpolation(q.effective_rate, MinOf(RatesOf(qs)),
                              MaxOf(RatesOf(qs)), 60),
     gas |-> InvertedInterpolation(q.gas_cost_usd, MinOf(GasOf(qs)),
                                   MaxOf(GasOf(qs)), 20),
     reliability |-> IF q.source \in {"1inch", "Paraswap", "0x", "Uniswap",
                                      "Curve", "Balancer"}
                     THEN Reliability(q.source) ELSE 85,
     freshness |-> IF q.expired THEN 0 ELSE 10]

\* C23: the score of every ranked quote is output_score + gas_score +
\* reliability_score + freshness_score, the output score the interpolation
\* of the rate onto [0,60], the gas score the inverted interpolation of the
\* gas cost onto [0,20], the reliability the table rating (0.85 unknown)
\* times 10, the freshness 10 unless expired; every score is in [0,100].
C23_ScoreIsSumOfParts ==
    rankpc = "ranked" =>
      \A i \in 1..Len(rankOut) :
        LET p == ScoreParts(rankOut[i].quote, rankIn)
            den == p.output[2] * p.gas[2] * 10
        IN  /\ den = ScoreDen(rankIn)
            /\ rankOut[i].score
                 = p.output[1] * p.gas[2] * 10 + p.gas[1] * p.output[2] * 10
                     + p.reliability * p.output[2] * p.gas[2]
                     + p.freshness * den
            /\ 0 <= p.output[1] /\ p.output[1] <= 60 * p.output[2]
            /\ 0 <= p.gas[1] /\ p.gas[1] <= 20 * p.gas[2]
            /\ 0 <= rankOut[i].score
            /\ rankOut[i].score <= 100 * den

\* an expired quote of an unknown source with a rate strictly between the
\* lowest and the highest and with the lowest of two gas costs:
\* 20 + 20 + 8.5 + 0
C23_Witness ==
    /\ rankpc = "ranked"
    /\ \E i \in 1..Len(rankOut) :
          LET p == ScoreParts(rankOut[i].quote, rankIn)
          IN  /\ rankOut[i].quote.expired
              /\ rankOut[i].quote.source = "Other"
              /\ p.output = <<60, 3>>
              /\ p.gas = <<40, 2>>
              /\ rankOut[i].score * 2 = 97 * ScoreDen(rankIn)

\* C25: savings_vs_worst of every ranked route is its output amount minus
\* the smallest output amount of the set, never negative and 0 for a route
\* with the smallest output; savings_pct is that difference over the
\* smallest output amount times 100, and 0 when the smallest is 0.
C25_SavingsAgainstWorst ==
    (rankpc = "ranked" /\ rankIn # <<>>) =>
      \E w \in 1..Len(rankIn) :
        LET worst == rankIn[w].output_amount
        IN  /\ \A j \in 1..Len(rankIn) : worst <= rankIn[j].output_amount
            /\ \A i \in 1..Len(rankOut) :
                 LET a == rankOut[i]
                 IN  /\ a.savings_vs_worst = a.quote.output_amount - worst
                     /\ a.savings_vs_worst >= 0
                     /\ a.quote.output_amount = worst
                          => a.savings_vs_worst = 0
                     /\ a.savings_pct[2] > 0
                     /\ worst > 0 =>
                          /\ a.savings_pct[1] = a.savings_vs_worst * 100
                          /\ a.savings_pct[2] = worst
                     /\ worst = 0 => a.savings_pct[1] = 0

\* a ranking whose smallest output amount is 0: the other route has a
\* positive saving and savings_pct 0
C25_Witness ==
    /\ rankpc = "ranked"
    /\ Len(rankOut) = 2
    /\ rankOut[2].quote.output_amount = 0
    /\ rankOut[2].savings_vs_worst = 0
    /\ rankOut[1].savings_vs_worst = 2513
    /\ rankOut[1].savings_pct[1] = 0

\* C26: compare_routes reports the spread between the output amount of the
\* rank-1 route and the smallest output amount, as a percentage of the
\* smallest; it is never negative, it is 0 when the smallest output amount
\* is 0, and the recommendation is 'similar' below 0.1, 'minor' from 0.1 to
\* below 1.0 and 'significant' from 1.0.
C26_PriceSpreadAndBucket ==
    (rankpc = "compared" /\ rankIn # <<>>) =>
      \E w \in 1..Len(rankIn) :
        LET worst == rankIn[w].output_amount
            best == rankOut.best_route
            spread == rankOut.price_spread
        IN  /\ \A j \in 1..Len(rankIn) : worst <= rankIn[j].output_amount
            /\ best = rankOut.all_routes[1]
            /\ best.rank = 1
            /\ spread[2] > 0
            /\ spread[1] >= 0
            /\ worst > 0 =>
                 /\ spread[1] = (best.quote.output_amount - worst) * 100
                 /\ spread[2] = worst
            /\ worst = 0 => spread[1] = 0
            /\ rankOut.recommendation
                 = (IF spread[1] * 10 < spread[2] THEN "similar"
                    ELSE IF spread[1] < spread[2] THEN "minor"
                    ELSE "significant")

\* the best route gives 1001, the other 1000: a spread of exactly 0.1 and
\* the recommendation 'minor'
C26_Witness ==
    /\ rankpc = "compared"
    /\ Len(rankIn) = 2
    /\ rankOut.best_route.quote.output_amount = 1001
    /\ rankOut.price_spread = <<100, 1000>>
    /\ rankOut.recommendation = "minor"

\* C30 as stated: the best route of compare_routes is a quote with the
\* highest effective rate of the list, the quote that max(quotes,
\* key=effective_rate) of the other modes selects.
C30_BestRouteHasBestRate ==
    (rankpc = "compared" /\ rankIn # <<>>) =>
      rankOut.best_route.quote.effective_rate = MaxOf(RatesOf(rankIn))

\* C30 amended: the best route is the first quote of the list, in input
\* order, with the highest composite score; its effective rate can be lower
\* than that of another quote.
C30_BestRouteHasBestScore ==
    (rankpc = "compared" /\ rankIn # <<>>) =>
      LET best == rankOut.best_route
      IN  \E i \in 1..Len(rankIn) :
            /\ best.quote = rankIn[i]
            /\ best.score = CalculateScore(rankIn[i], rankIn)
            /\ best.rank = 1
            /\ \A j \in 1..Len(rankIn) :
                  /\ CalculateScore(rankIn[j], rankIn) <= best.score
                  /\ j < i => CalculateScore(rankIn[j], rankIn) < best.score

\* the 2541.90 quote with the lowest gas cost is the best route, the
\* 2542.09 quote with the highest gas cost is second
C30_Witness ==
    /\ rankpc = "compared"
    /\ Len(rankIn) = 3
    /\ rankOut.best_route.quote.effective_rate = 254190
    /\ rankOut.all_routes[2].quote.effective_rate = 254209
    /\ MaxOf(RatesOf(rankIn)) = 254209

\* the quotes were fetched for the whole order: input_amount = total_amount,
\* gas_cost_usd >= 0, effective_rate = (output_amount - gas_cost_usd) /
\* input_amount
FetchedForOrder(in) ==
    /\ in.total_amount > 0
    /\ \A i \in 1..Len(in.quotes) :
          LET q == in.quotes[i]
          IN  /\ q.input_amount = in.total_amount
              /\ q.gas_cost_usd >= 0
              /\ q.effective_rate * q.input_amount
                   = q.output_amount - q.gas_cost_usd

\* C27: for quotes fetched for the whole order calculate_split never
\* reports a beneficial split, and the net benefit is at most 0.
C27_FetchedSplitNeverBeneficial ==
    (splitpc = "done" /\ FetchedForOrder(splitIn)) =>
      /\ ~splitOut.is_split_beneficial
      /\ splitOut.net_benefit <= 0

\* the venues _optimize_split selects: the best rates, at most max_venues
SelectedVenues ==
    LET sorted == SortByRate(splitIn.quotes)
    IN  SubSeq(sorted, 1, Smaller(splitIn.calc.max_venues, Len(sorted)))

\* the result is a split over two or more selected venues
MultiVenueSplit ==
    /\ splitpc = "done"
    /\ ~SingleVenueResult
    /\ Len(SelectedVenues) >= 2

\* the weight share of venue i of the selected venues is below the minimum
ShareBelowMinimum(venues, i) ==
    Weight(venues[i]) * 100
      < splitIn.calc.min_allocation_pct
          * SumSeq([j \in 1..Len(venues) |-> Weight(venues[j])])

\* the allocations of a source
AllocationsOf(r, source) ==
    {i \in 1..Len(r.allocations) : r.allocations[i].source = source}

\* a selected venue other than the final one whose share is below the
\* minimum has no allocation
DroppedVenuesAbsent ==
    \A i \in 1..Len(SelectedVenues) - 1 :
       ShareBelowMinimum(SelectedVenues, i) =>
         AllocationsOf(splitOut, SelectedVenues[i].source) = {}

\* every allocation but the final venue's has at least the minimum
OthersAboveMinimum ==
    \A i \in 1..Len(splitOut.allocations) :
       splitOut.allocations[i].source
           # SelectedVenues[Len(SelectedVenues)].source
         => splitOut.allocations[i].percentage
              >= splitIn.calc.min_allocation_pct * PctUnit

\* the final venue has one allocation, of all that the others leave
FinalGetsRemainder ==
    LET final == SelectedVenues[Len(SelectedVenues)].source
        others == {i \in 1..Len(splitOut.allocations) :
                     splitOut.allocations[i].source # final}
        given == SumSeq([i \in 1..Len(splitOut.allocations) |->
                           IF i \in others
                           THEN splitOut.allocations[i].input_amount ELSE 0])
    IN  /\ Cardinality(AllocationsOf(splitOut, final)) = 1
        /\ \A i \in AllocationsOf(splitOut, final) :
              splitOut.allocations[i].input_amount
                = splitIn.total_amount * AmountUnit - given

\* C24: in a split over several venues a venue other than the final one
\* with a weight share below min_allocation_pct gets no allocation, every
\* allocation but the final venue's has at least min_allocation_pct, and
\* the final venue gets the whole remainder, however small.
C24_MinimumAllocation ==
    MultiVenueSplit =>
      /\ DroppedVenuesAbsent
      /\ OthersAboveMinimum
      /\ FinalGetsRemainder

\* C29: in every result total_output is the sum of the allocations'
\* expected_output and total_input the sum of their input_amount.
C29_TotalsAreSums ==
    splitpc = "done" =>
      /\ splitOut.total_output = SumExpectedOutput(splitOut)
      /\ splitOut.total_input = SumInputAmount(splitOut)

\* the place of a quote's source in AGGREGATORS
ConfigPosition(name) ==
    CHOOSE k \in 1..Len(AggOrder) : QuoteSource(AggOrder[k]) = name

\* C28: the list fetch_all_quotes returns has at most one quote per source,
\* only of sources whose chain table has the requested chain id, namely of
\* those whose task returned a quote, in the order of AGGREGATORS whatever
\* the order in which the tasks completed.
C28_QuotesInConfigOrder ==
    \A c \in Calls :
       call[c].phase = "returned" =>
         LET qs == call[c].quotes
             chain_id == ChainId(call[c].params.chain)
         IN  /\ \A i \in 1..Len(qs) :
                   \E s \in Sources :
                      /\ qs[i].source = QuoteSource(s)
                      /\ chain_id \in AggChains(s)
                      /\ task[c][s].result = ResQuote(qs[i])
             /\ \A s \in Sources :
                   IsQuote(task[c][s].result) =>
                     \E i \in 1..Len(qs) : qs[i].source = QuoteSource(s)
             /\ \A i, j \in 1..Len(qs) :
                   i < j => ConfigPosition(qs[i].source)
                              < ConfigPosition(qs[j].source)

\* on a chain 0x does not serve, the Paraswap task completed before the
\* 1inch task, and the list is 1inch, Paraswap
C28_Witness ==
    /\ call[1].phase = "returned"
    /\ ChainId(call[1].params.chain) \notin AggChains("0x")
    /\ task[1]["paraswap"].wake < task[1]["1inch"].wake
    /\ Len(call[1].quotes) = 2
    /\ call[1].quotes[1].source = "1inch"
    /\ call[1].quotes[2].source = "Paraswap"

\* C21: no call of rank_quotes, compare_routes, calculate_split or
\* assess_risk changes its input: the quote list keeps its elements, their
\* order and every field of every quote, whatever the sequence of calls.
C21_InputsUnchanged ==
    [][rankIn' = rankIn /\ splitIn' = splitIn /\ mevIn' = mevIn]_vars

\* every component has been called, the ranking after a wait, on a list of
\* two quotes that rank_quotes puts in the other order
C21_Witness ==
    /\ rankpc = "compared"
    /\ rankAt > StartClock
    /\ splitpc = "done"
    /\ mevpc = "done"
    /\ Len(rankIn) = 2
    /\ rankOut.all_routes[1].quote = rankIn[2]
    /\ splitOut.allocations[1].source = splitIn.quotes[2].source

\* the routes of the last call of rank_quotes or compare_routes
RoutesOf(out, pc) ==
    IF pc = "compared" THEN (IF rankIn = <<>> THEN <<>> ELSE out.all_routes)
    ELSE out

RankCalled(pc) == pc \in {"ranked", "compared"}

\* no quote of the list is expired at one of the instants t and u and not
\* at the other
SameExpiry(qs, t, u) ==
    \A i \in 1..Len(qs) :
       (t - qs[i].timestamp > ValidForSeconds * TicksPerSecond)
         <=> (u - qs[i].timestamp > ValidForSeconds * TicksPerSecond)

\* C22 as stated: a second call of rank_quotes, compare_routes,
\* calculate_split or assess_risk on the same input returns what the first
\* returned, whenever it is made and whatever was called in between.
C22_SameResultWhenever ==
    [][/\ (RankCalled(rankpc) /\ RankCalled(rankpc')) =>
            RoutesOf(rankOut', rankpc') = RoutesOf(rankOut, rankpc)
       /\ (rankpc = "compared" /\ rankpc' = "compared") => rankOut' = rankOut
       /\ (splitpc = "done" /\ splitpc' = "done") => splitOut' = splitOut
       /\ (mevpc = "done" /\ mevpc' = "done") => mevOut' = mevOut]_vars

\* C22 amended: calculate_split and assess_risk return the same result
\* whenever they are called again; rank_quotes and compare_routes return
\* the same routes as the call before when no quote of the list has
\* expired between the two calls.
C22_SameResultWhileFresh ==
    [][/\ (RankCalled(rankpc) /\ RankCalled(rankpc')
             /\ SameExpiry(rankIn, rankAt, rankAt')) =>
            /\ RoutesOf(rankOut', rankpc') = RoutesOf(rankOut, rankpc)
            /\ (rankpc = "compared" /\ rankpc' = "compared")
                 => rankOut' = rankOut
       /\ (splitpc = "done" /\ splitpc' = "done") => splitOut' = splitOut
       /\ (mevpc = "done" /\ mevpc' = "done") => mevOut' = mevOut]_vars

\* two quotes built at the start are ranked when they are exactly
\* valid_for_seconds old, not yet expired: the ranking is that of the start
C22_Witness ==
    /\ rankpc = "ranked"
    /\ rankAt = StartClock + ValidForSeconds * TicksPerSecond
    /\ Len(rankIn) = 2
    /\ \A i \in 1..2 : rankIn[i].timestamp = StartClock
    /\ rankOut = RankQuotesAt(rankIn, StartClock)
    /\ rankOut # RankQuotesAt(rankIn, rankAt + 1)
    /\ splitpc = "done"
    /\ mevpc = "done"

====
